---- MODULE Spec2Model ----
(***************************************************************************)
(* Model of package sqlite_regexp: the process-wide compiled-pattern cache *)
(* (regexpCache), the predicate regexpFunction and the management calls    *)
(* ClearRegexpCache and GetCacheSize, run by several goroutines; and      *)
(* RegisterRegexpFunction and OpenWithRegexp with the connection pool of   *)
(* database/sql, and the queries that SQLite evaluates through the handle. *)
(*                                                                         *)
(* A pattern and a text are sequences of one-character tokens.  The        *)
(* pattern fragment modelled is: literal characters, the anchors "^" and   *)
(* "$", and "[" which opens a character class that is never closed (the    *)
(* malformed pattern of the tests).                                        *)
(***************************************************************************)
EXTENDS Integers, Sequences, FiniteSets, TLC

\* ------------------------------------------------------------------ bounds

NumThreads == 2
MaxTextLen == 2
HistLen == 4
MaxConns == 2

Threads == 1 .. NumThreads
NoThread == 0

Chars == {"a", "b"}

\* The patterns a caller may pass: three valid ones, two of which match the same
\* texts, and a malformed one.
Patterns == { <<"^", "b">>, <<"^", "^", "b">>, <<"a", "$">>, <<"a", "[">> }

Texts == UNION { [1 .. n -> Chars] : n \in 0 .. MaxTextLen }

Nil == [code |-> "nil"]
NoRe == [prog |-> << >>, by |-> NoThread]
NoValue == -1

\* ------------------------------------------------------ regexp (library)

\* The suffix of s that starts at index i.
Rest(s, i) == SubSeq(s, i, Len(s))

\* The instruction a token compiles to.
Inst(tok) ==
  IF tok = "^" THEN [op |-> "bol", c |-> ""]
  ELSE IF tok = "$" THEN [op |-> "eol", c |-> ""]
  ELSE [op |-> "rune", c |-> tok]

RECURSIVE Parse(_, _, _)
\* Scans the pattern from token i on, appending to the program acc; a "["
\* has no closing "]" in this fragment and is the parse error of the library.
Parse(pattern, i, acc) ==
  IF i > Len(pattern)
    THEN [prog |-> Append(acc, [op |-> "match", c |-> ""]), err |-> Nil]
  ELSE IF pattern[i] = "["
    THEN [prog |-> << >>,
          err |-> [code |-> "missing closing ]", expr |-> Rest(pattern, i)]]
  ELSE Parse(pattern, i + 1, Append(acc, Inst(pattern[i])))

\* regexp.Compile(pattern): (program, nil) or (nothing, error).
Compile(pattern) == Parse(pattern, 1, << >>)

RECURSIVE Run(_, _, _, _)
\* Runs the program from instruction ip with the input position at pos.
Run(prog, ip, text, pos) ==
  LET inst == prog[ip] IN
  CASE inst.op = "match" -> TRUE
    [] inst.op = "bol" -> pos = 0 /\ Run(prog, ip + 1, text, pos)
    [] inst.op = "eol" -> pos = Len(text) /\ Run(prog, ip + 1, text, pos)
    [] inst.op = "rune" ->
         /\ pos < Len(text)
         /\ text[pos + 1] = inst.c
         /\ Run(prog, ip + 1, text, pos + 1)

\* Mutant: the match is tried at the start of the text only.
MatchString_AnchoredAtStart(re, text) == Run(re.prog, 1, text, 0)

\* re.MatchString(text): the text contains a match of the program.
MatchString(re, text) == \E start \in 0 .. Len(text) : Run(re.prog, 1, text, start)

\* -------------------------------------------- reference pattern semantics

\* A pattern is well formed when it opens no character class.
ValidPattern(p) == \A i \in 1 .. Len(p) : p[i] # "["

IsAnchor(tok) == tok \in {"^", "$"}

\* The literal characters of p among its first n tokens, in order.
RECURSIVE Literals(_, _)
Literals(p, n) ==
  IF n = 0 THEN << >>
  ELSE IF IsAnchor(p[n]) THEN Literals(p, n - 1)
  ELSE Append(Literals(p, n - 1), p[n])

\* The text x matches p: some substring x[i+1..j] spells the literals of p, and
\* every anchor of p sits at the start ("^") or the end ("$") of x.
Matches(p, x) ==
  \E i \in 0 .. Len(x), j \in 0 .. Len(x) :
    /\ i <= j
    /\ SubSeq(x, i + 1, j) = Literals(p, Len(p))
    /\ \A k \in 1 .. Len(p) :
         /\ p[k] = "^" => i + Len(Literals(p, k - 1)) = 0
         /\ p[k] = "$" => i + Len(Literals(p, k - 1)) = Len(x)

\* The error the compiler reports for a malformed p.
RefError(p) ==
  LET i == CHOOSE k \in 1 .. Len(p) : p[k] = "[" /\ \A m \in 1 .. k - 1 : p[m] # "["
  IN [code |-> "missing closing ]", expr |-> SubSeq(p, i, Len(p))]

\* ---------------------------------------------------------------- the map

\* Mutant: the presence is that of key k, the value that of some entry.
MapLookup_FirstEntry(m, k) ==
  IF \E e \in m : e.key = k
    THEN [re |-> (CHOOSE e \in m : TRUE).val, exists |-> TRUE]
    ELSE [re |-> NoRe, exists |-> FALSE]

\* Mutant: a key finds the entry of any pattern that matches the same texts.
MapLookup_ByMeaning(m, k) ==
  LET same(e) == /\ ValidPattern(k)
                 /\ \A x \in Texts : Matches(e.key, x) = Matches(k, x)
  IN IF \E e \in m : same(e)
       THEN [re |-> (CHOOSE e \in m : same(e)).val, exists |-> TRUE]
       ELSE [re |-> NoRe, exists |-> FALSE]

\* A Go map as the set of its entries.
MapLookup(m, k) ==
  IF \E e \in m : e.key = k
    THEN [re |-> (CHOOSE e \in m : e.key = k).val, exists |-> TRUE]
    ELSE [re |-> NoRe, exists |-> FALSE]

\* Mutant: an assignment adds its entry next to the one the key has.
MapAssign_Append(m, k, v) == m \cup { [key |-> k, val |-> v] }

\* Mutant: an assignment to a key the map has is dropped (insert if absent).
MapAssign_KeepExisting(m, k, v) ==
  IF \E e \in m : e.key = k THEN m ELSE m \cup { [key |-> k, val |-> v] }

\* Mutant: an assignment drops the entries of the other keys.
MapAssign_DropOthers(m, k, v) == { [key |-> k, val |-> v] }

\* Mutant: an entry is overwritten only by the goroutine that stored it.
MapAssign_PerWriter(m, k, v) ==
  { e \in m : e.key # k \/ e.val.by # v.by } \cup { [key |-> k, val |-> v] }

\* m[k] = v
MapAssign(m, k, v) == { e \in m : e.key # k } \cup { [key |-> k, val |-> v] }

\* make(map[string]*regexp.Regexp)
MakeMap == { }

\* len(m)
MapLen(m) == Cardinality(m)

Keys(m) == { e.key : e \in m }

\* ------------------------------------------- database/sql, SQLite (library)

\* The connections the pool of one *sql.DB may have open.
Conns == 1 .. MaxConns
NoConn == 0

\* A slot of the pool: no connection, a free one or one in use; regexp says
\* whether the function "regexp" is registered on the SQLite connection.
ClosedConn == [st |-> "closed", regexp |-> FALSE]

ErrBadConn == [code |-> "driver: bad connection"]
ErrCantOpen == [code |-> "unable to open database file"]
ErrCreateFunction == [code |-> "sqlite3_create_function failed"]
NoSuchFunction == [code |-> "no such function: REGEXP"]

\* Mutant: the operands of REGEXP are passed in the order they are written.
InfixArgs_AsWritten(x, y) == <<x, y>>

\* SQLite evaluates the expression "x REGEXP y" as the call regexp(y, x).
InfixArgs(x, y) == <<y, x>>

\* The operands of the queries: the text operands, among them one that no
\* pattern matches and one that both valid patterns match, and the pattern
\* operands, two valid ones and the malformed one.
Items == { <<"b">>, <<"b", "a">>, <<"a", "b">> }
SqlPatterns == { <<"^", "b">>, <<"a", "$">>, <<"a", "[">> }

\* The tables of a join: rows (pattern, category) with valid patterns, in the
\* second table under one category, and rows (item).
PatternTables ==
  { << [pattern |-> <<"^", "b">>, category |-> "c1"],
       [pattern |-> <<"a", "$">>, category |-> "c2"] >>,
    << [pattern |-> <<"^", "b">>, category |-> "c1"],
       [pattern |-> <<"a", "$">>, category |-> "c1"] >> }

ItemTables ==
  { << <<"b">>, <<"b", "a">> >>, << <<"b">>, <<"a", "b">> >>,
    << <<"b", "a">>, <<"a", "b">> >> }

\* The row pairs the nested loop of "patterns p JOIN items i" visits.
Pairs(P, I) ==
  [k \in 1 .. Len(P) * Len(I) |->
     [p |-> P[((k - 1) \div Len(I)) + 1], item |-> I[((k - 1) % Len(I)) + 1]]]

\* One whole call regexpFunction(p, x) by goroutine t on the map m: what it
\* returns and the map it leaves.
RegexpFunction(m, p, x, t) ==
  LET l == MapLookup(m, p)
      c == Compile(p)
      new == [prog |-> c.prog, by |-> t]
  IN IF l.exists
       THEN [result |-> IF MatchString(l.re, x) THEN 1 ELSE 0, err |-> Nil,
             cache |-> m]
     ELSE IF c.err # Nil
       THEN [result |-> 0, err |-> c.err, cache |-> m]
     ELSE [result |-> IF MatchString(new, x) THEN 1 ELSE 0, err |-> Nil,
           cache |-> MapAssign(m, p, new)]

NoQuery ==
  [pc |-> "idle", kind |-> "none", conn |-> NoConn, lhs |-> << >>, rhs |-> << >>,
   pats |-> << >>, items |-> << >>, k |-> 0, args |-> << >>, rows |-> << >>,
   value |-> NoValue, err |-> Nil]

\* ------------------------------------------------------------------ state

VARIABLES
  cache,     \* regexpCache.cache
  readers,   \* goroutines holding regexpCache's shared lock
  writer,    \* the goroutine holding regexpCache's exclusive lock, or NoThread
  pc,        \* each goroutine's position
  pattern,   \* regexpFunction's argument pattern
  text,      \* regexpFunction's argument text, drawn where the call reads it
  re,        \* regexpFunction's local re
  exists,    \* regexpFunction's local exists
  result,    \* the int a call returned (regexpFunction, GetCacheSize)
  err,       \* the error regexpFunction returned
  size,      \* GetCacheSize's local size
  hist,      \* observer: the last HistLen calls of a sequential run, latest last
  seen,      \* observer: the valid patterns passed since the last clear
  db,        \* the *sql.DB handle: its state, its driver, its pooled connections
  reg,       \* the goroutine that opens the handle and registers the function
  qry,       \* per goroutine, the query it runs through the handle
  warm,      \* observer: the call's pattern was cached when the call began, and
             \*           no clear has replaced the map since
  overtaken, \* observer: a clear replaced the map while the call held a matcher
  supplied,  \* observer: the patterns regexpFunction has been called with
  wwait      \* sync.RWMutex: the goroutine inside Lock() that has announced
             \* itself to the readers and waits for them to leave, or NoThread

vars == <<cache, readers, writer, pc, pattern, text, re, exists, result, err, size,
          hist, seen, warm, overtaken, db, reg, qry, supplied, wwait>>

AtRest == {"idle", "rf_done", "cl_done", "sz_done"}

Init ==
  /\ cache = MakeMap
  /\ readers = {}
  /\ writer = NoThread
  /\ pc = [t \in Threads |-> "idle"]
  /\ pattern = [t \in Threads |-> << >>]
  /\ text = [t \in Threads |-> << >>]
  /\ re = [t \in Threads |-> NoRe]
  /\ exists = [t \in Threads |-> FALSE]
  /\ result = [t \in Threads |-> NoValue]
  /\ err = [t \in Threads |-> Nil]
  /\ size = [t \in Threads |-> NoValue]
  /\ hist = << >>
  /\ seen = {}
  /\ warm = [t \in Threads |-> FALSE]
  /\ overtaken = [t \in Threads |-> FALSE]
  /\ db = [state |-> "none", driver |-> "none", conns |-> [c \in Conns |-> ClosedConn]]
  /\ reg = [pc |-> "start", via |-> "none", conn |-> NoConn, err |-> Nil,
            raised |-> Nil, attempts |-> 0, ret |-> [db |-> "none", err |-> Nil]]
  /\ qry = [t \in Threads |-> NoQuery]
  /\ supplied = {}
  /\ wwait = NoThread

\* The locals and results of a goroutine that enters a call.
Enter(t, label, p, x) ==
  /\ pc[t] \in AtRest
  /\ pc' = [pc EXCEPT ![t] = label]
  /\ pattern' = [pattern EXCEPT ![t] = p]
  /\ text' = [text EXCEPT ![t] = x]
  /\ re' = [re EXCEPT ![t] = NoRe]
  /\ exists' = [exists EXCEPT ![t] = FALSE]
  /\ result' = [result EXCEPT ![t] = NoValue]
  /\ err' = [err EXCEPT ![t] = Nil]
  /\ size' = [size EXCEPT ![t] = NoValue]
  /\ UNCHANGED <<cache, readers, writer>>

\* ---------------------------------------------------------- regexpFunction

\* The call regexpFunction(p, x).  Nothing reads x before the match of line 46,
\* so the model draws x there.
CallRegexpFunction(t) ==
  \E p \in Patterns : Enter(t, "rf_rlock", p, << >>)

\* Mutant: the shared lock is granted while a writer holds the lock.
RfRLock_IgnoresWriter(t) ==
  /\ pc[t] = "rf_rlock"
  /\ readers' = readers \cup {t}
  /\ pc' = [pc EXCEPT ![t] = "rf_lookup"]
  /\ UNCHANGED <<cache, writer, pattern, text, re, exists, result, err, size>>

\* regexpCache.RLock()
RfRLock(t) ==
  /\ pc[t] = "rf_rlock"
  /\ writer = NoThread
  /\ readers' = readers \cup {t}
  /\ pc' = [pc EXCEPT ![t] = "rf_lookup"]
  /\ UNCHANGED <<cache, writer, pattern, text, re, exists, result, err, size>>

\* re, exists := regexpCache.cache[pattern]
RfLookup(t) ==
  /\ pc[t] = "rf_lookup"
  /\ LET got == MapLookup(cache, pattern[t]) IN
       /\ re' = [re EXCEPT ![t] = got.re]
       /\ exists' = [exists EXCEPT ![t] = got.exists]
  /\ pc' = [pc EXCEPT ![t] = "rf_runlock"]
  /\ UNCHANGED <<cache, readers, writer, pattern, text, result, err, size>>

\* Mutant: the shared lock is not released after the lookup.
RfRUnlock_KeepsLock(t) ==
  /\ pc[t] = "rf_runlock"
  /\ pc' = [pc EXCEPT ![t] = IF exists[t] THEN "rf_match" ELSE "rf_compile"]
  /\ UNCHANGED <<cache, readers, writer, pattern, text, re, exists, result, err, size>>

\* Mutant: the call compiles whether or not the lookup found the pattern.
RfRUnlock_AlwaysCompiles(t) ==
  /\ pc[t] = "rf_runlock"
  /\ readers' = readers \ {t}
  /\ pc' = [pc EXCEPT ![t] = "rf_compile"]
  /\ UNCHANGED <<cache, writer, pattern, text, re, exists, result, err, size>>

\* regexpCache.RUnlock(); if !exists
RfRUnlock(t) ==
  /\ pc[t] = "rf_runlock"
  /\ readers' = readers \ {t}
  /\ pc' = [pc EXCEPT ![t] = IF exists[t] THEN "rf_match" ELSE "rf_compile"]
  /\ UNCHANGED <<cache, writer, pattern, text, re, exists, result, err, size>>

\* Mutant: the compilation error is not returned; the call goes on to store.
RfCompile_StoresFailure(t) ==
  /\ pc[t] = "rf_compile"
  /\ LET c == Compile(pattern[t]) IN
       re' = [re EXCEPT ![t] =
                [prog |-> IF c.err # Nil THEN <<[op |-> "match", c |-> ""]>> ELSE c.prog,
                 by |-> t]]
  /\ pc' = [pc EXCEPT ![t] = "rf_lock"]
  /\ UNCHANGED <<cache, readers, writer, pattern, text, exists, result, err, size>>

\* Mutant: the compilation error is swallowed: the call returns (0, nil).
RfCompile_SwallowsError(t) ==
  /\ pc[t] = "rf_compile"
  /\ LET c == Compile(pattern[t]) IN
       IF c.err # Nil
         THEN /\ result' = [result EXCEPT ![t] = 0]
              /\ err' = [err EXCEPT ![t] = Nil]
              /\ pc' = [pc EXCEPT ![t] = "rf_done"]
              /\ UNCHANGED re
         ELSE /\ re' = [re EXCEPT ![t] = [prog |-> c.prog, by |-> t]]
              /\ pc' = [pc EXCEPT ![t] = "rf_lock"]
              /\ UNCHANGED <<result, err>>
  /\ UNCHANGED <<cache, readers, writer, pattern, text, exists, size>>

\* Mutant: the compiled matcher is entered into the map at once, without the
\* exclusive lock.
RfCompile_StoresUnlocked(t) ==
  /\ pc[t] = "rf_compile"
  /\ LET c == Compile(pattern[t]) IN
       IF c.err # Nil
         THEN /\ result' = [result EXCEPT ![t] = 0]
              /\ err' = [err EXCEPT ![t] = c.err]
              /\ pc' = [pc EXCEPT ![t] = "rf_done"]
              /\ UNCHANGED <<re, cache>>
         ELSE /\ re' = [re EXCEPT ![t] = [prog |-> c.prog, by |-> t]]
              /\ cache' = MapAssign(cache, pattern[t], [prog |-> c.prog, by |-> t])
              /\ pc' = [pc EXCEPT ![t] = "rf_lock"]
              /\ UNCHANGED <<result, err>>
  /\ UNCHANGED <<readers, writer, pattern, text, exists, size>>

\* re, err = regexp.Compile(pattern); if err != nil { return 0, err }
RfCompile(t) ==
  /\ pc[t] = "rf_compile"
  /\ LET c == Compile(pattern[t]) IN
       IF c.err # Nil
         THEN /\ result' = [result EXCEPT ![t] = 0]
              /\ err' = [err EXCEPT ![t] = c.err]
              /\ pc' = [pc EXCEPT ![t] = "rf_done"]
              /\ UNCHANGED re
         ELSE /\ re' = [re EXCEPT ![t] = [prog |-> c.prog, by |-> t]]
              /\ pc' = [pc EXCEPT ![t] = "rf_lock"]
              /\ UNCHANGED <<result, err>>
  /\ UNCHANGED <<cache, readers, writer, pattern, text, exists, size>>

\* regexpCache.Lock()
RfLock(t) ==
  /\ pc[t] = "rf_lock"
  /\ writer = NoThread
  /\ readers = {}
  /\ writer' = t
  /\ pc' = [pc EXCEPT ![t] = "rf_store"]
  /\ UNCHANGED <<cache, readers, pattern, text, re, exists, result, err, size>>

\* Mutant: the store replaces the whole map by the one new entry.
RfStore_ReplacesMap(t) ==
  /\ pc[t] = "rf_store"
  /\ cache' = { [key |-> pattern[t], val |-> re[t]] }
  /\ pc' = [pc EXCEPT ![t] = "rf_unlock"]
  /\ UNCHANGED <<readers, writer, pattern, text, re, exists, result, err, size>>

\* Mutant: the store is dropped when the map already holds an entry.
RfStore_SkipsWhenNonEmpty(t) ==
  /\ pc[t] = "rf_store"
  /\ cache' = IF cache = MakeMap THEN MapAssign(cache, pattern[t], re[t]) ELSE cache
  /\ pc' = [pc EXCEPT ![t] = "rf_unlock"]
  /\ UNCHANGED <<readers, writer, pattern, text, re, exists, result, err, size>>

\* Mutant: the store uses the pattern of another goroutine's running call as
\* the key.
RfStore_WrongKey(t) ==
  /\ pc[t] = "rf_store"
  /\ LET others == { u \in Threads \ {t} : pc[u] \in {"rf_rlock", "rf_compile", "rf_lock"} }
         k == IF others = {} THEN pattern[t]
              ELSE pattern[CHOOSE u \in others : TRUE]
     IN cache' = MapAssign(cache, k, re[t])
  /\ pc' = [pc EXCEPT ![t] = "rf_unlock"]
  /\ UNCHANGED <<readers, writer, pattern, text, re, exists, result, err, size>>

\* Mutant: the store also enters the matcher under the pattern with one more
\* leading "^".
RfStore_AlsoAnchored(t) ==
  /\ pc[t] = "rf_store"
  /\ cache' = MapAssign(MapAssign(cache, pattern[t], re[t]),
                        <<"^">> \o pattern[t], re[t])
  /\ pc' = [pc EXCEPT ![t] = "rf_unlock"]
  /\ UNCHANGED <<readers, writer, pattern, text, re, exists, result, err, size>>

\* regexpCache.cache[pattern] = re
RfStore(t) ==
  /\ pc[t] = "rf_store"
  /\ cache' = MapAssign(cache, pattern[t], re[t])
  /\ pc' = [pc EXCEPT ![t] = "rf_unlock"]
  /\ UNCHANGED <<readers, writer, pattern, text, re, exists, result, err, size>>

\* Mutant: the exclusive lock is not released after the store.
RfUnlock_KeepsLock(t) ==
  /\ pc[t] = "rf_unlock"
  /\ pc' = [pc EXCEPT ![t] = "rf_match"]
  /\ UNCHANGED <<cache, readers, writer, pattern, text, re, exists, result, err, size>>

\* regexpCache.Unlock()
RfUnlock(t) ==
  /\ pc[t] = "rf_unlock"
  /\ writer' = NoThread
  /\ pc' = [pc EXCEPT ![t] = "rf_match"]
  /\ UNCHANGED <<cache, readers, pattern, text, re, exists, result, err, size>>

\* Mutant: a text that does not match is reported as an error.
RfMatch_ErrorOnNoMatch(t) ==
  /\ pc[t] = "rf_match"
  /\ \E x \in Texts :
       /\ text' = [text EXCEPT ![t] = x]
       /\ result' = [result EXCEPT ![t] = IF MatchString(re[t], x) THEN 1 ELSE 0]
       /\ err' = [err EXCEPT ![t] = IF MatchString(re[t], x)
                                      THEN Nil ELSE [code |-> "no match"]]
  /\ pc' = [pc EXCEPT ![t] = "rf_done"]
  /\ UNCHANGED <<cache, readers, writer, pattern, re, exists, size>>

\* Mutant: a call that found its pattern in the cache returns 1 without
\* matching.
RfMatch_CachedHitIsOne(t) ==
  /\ pc[t] = "rf_match"
  /\ \E x \in Texts :
       /\ text' = [text EXCEPT ![t] = x]
       /\ result' = [result EXCEPT ![t] =
                       IF exists[t] \/ MatchString(re[t], x) THEN 1 ELSE 0]
  /\ err' = [err EXCEPT ![t] = Nil]
  /\ pc' = [pc EXCEPT ![t] = "rf_done"]
  /\ UNCHANGED <<cache, readers, writer, pattern, re, exists, size>>

\* if re.MatchString(text) { return 1, nil }; return 0, nil
RfMatch(t) ==
  /\ pc[t] = "rf_match"
  /\ \E x \in Texts :
       /\ text' = [text EXCEPT ![t] = x]
       /\ result' = [result EXCEPT ![t] = IF MatchString(re[t], x) THEN 1 ELSE 0]
  /\ err' = [err EXCEPT ![t] = Nil]
  /\ pc' = [pc EXCEPT ![t] = "rf_done"]
  /\ UNCHANGED <<cache, readers, writer, pattern, re, exists, size>>

\* -------------------------------------------------------- ClearRegexpCache

CallClearRegexpCache(t) == Enter(t, "cl_lock", << >>, << >>)

\* regexpCache.Lock()
ClLock(t) ==
  /\ pc[t] = "cl_lock"
  /\ writer = NoThread
  /\ readers = {}
  /\ writer' = t
  /\ pc' = [pc EXCEPT ![t] = "cl_replace"]
  /\ UNCHANGED <<cache, readers, pattern, text, re, exists, result, err, size>>

\* Mutant: the clear leaves the map as it is.
ClReplace_KeepsMap(t) ==
  /\ pc[t] = "cl_replace"
  /\ cache' = cache
  /\ pc' = [pc EXCEPT ![t] = "cl_unlock"]
  /\ UNCHANGED <<readers, writer, pattern, text, re, exists, result, err, size>>

\* Mutant: the clear removes one entry per step and lets go of the lock in
\* between.
ClReplace_DropsOne(t) ==
  /\ pc[t] = "cl_replace"
  /\ cache' = IF cache = {} THEN {} ELSE cache \ {CHOOSE e \in cache : TRUE}
  /\ pc' = [pc EXCEPT ![t] = IF MapLen(cache) <= 1 THEN "cl_unlock" ELSE "cl_replace"]
  /\ writer' = IF MapLen(cache) <= 1 THEN writer ELSE NoThread
  /\ UNCHANGED <<readers, pattern, text, re, exists, result, err, size>>

\* Mutant: the clear also resets the matchers that calls in flight hold.
ClReplace_ResetsMatchers(t) ==
  /\ pc[t] = "cl_replace"
  /\ cache' = MakeMap
  /\ re' = [u \in Threads |->
              IF re[u] = NoRe THEN NoRe
              ELSE [re[u] EXCEPT !.prog = <<[op |-> "match", c |-> ""]>>]]
  /\ pc' = [pc EXCEPT ![t] = "cl_unlock"]
  /\ UNCHANGED <<readers, writer, pattern, text, exists, result, err, size>>

\* regexpCache.cache = make(map[string]*regexp.Regexp)
ClReplace(t) ==
  /\ pc[t] = "cl_replace"
  /\ cache' = MakeMap
  /\ pc' = [pc EXCEPT ![t] = "cl_unlock"]
  /\ UNCHANGED <<readers, writer, pattern, text, re, exists, result, err, size>>

\* regexpCache.Unlock()
ClUnlock(t) ==
  /\ pc[t] = "cl_unlock"
  /\ writer' = NoThread
  /\ pc' = [pc EXCEPT ![t] = "cl_done"]
  /\ UNCHANGED <<cache, readers, pattern, text, re, exists, result, err, size>>

\* ------------------------------------------------------------ GetCacheSize

CallGetCacheSize(t) == Enter(t, "sz_rlock", << >>, << >>)

\* Mutant: GetCacheSize takes the shared lock while a writer holds the
\* exclusive lock.
SzRLock_IgnoresWriter(t) ==
  /\ pc[t] = "sz_rlock"
  /\ readers' = readers \cup {t}
  /\ pc' = [pc EXCEPT ![t] = "sz_len"]
  /\ UNCHANGED <<cache, writer, pattern, text, re, exists, result, err, size>>

\* regexpCache.RLock()
SzRLock(t) ==
  /\ pc[t] = "sz_rlock"
  /\ writer = NoThread
  /\ readers' = readers \cup {t}
  /\ pc' = [pc EXCEPT ![t] = "sz_len"]
  /\ UNCHANGED <<cache, writer, pattern, text, re, exists, result, err, size>>

\* size := len(regexpCache.cache)
SzLen(t) ==
  /\ pc[t] = "sz_len"
  /\ size' = [size EXCEPT ![t] = MapLen(cache)]
  /\ pc' = [pc EXCEPT ![t] = "sz_runlock"]
  /\ UNCHANGED <<cache, readers, writer, pattern, text, re, exists, result, err>>

\* regexpCache.RUnlock(); return size
SzRUnlock(t) ==
  /\ pc[t] = "sz_runlock"
  /\ readers' = readers \ {t}
  /\ result' = [result EXCEPT ![t] = size[t]]
  /\ pc' = [pc EXCEPT ![t] = "sz_done"]
  /\ UNCHANGED <<cache, writer, pattern, text, re, exists, err, size>>

\* ---------------------------------------------------------- specifications

\* The observer variables stay as they are.
Unobserved == UNCHANGED <<hist, seen, warm, overtaken, db, reg, qry, supplied, wwait>>

\* Any goroutine takes its next step; the goroutines interleave freely.
Next ==
  \E t \in Threads :
    \/ CallRegexpFunction(t) /\ Unobserved
    \/ RfRLock(t) /\ Unobserved
    \/ RfLookup(t) /\ Unobserved
    \/ RfRUnlock(t) /\ Unobserved
    \/ RfCompile(t) /\ Unobserved
    \/ RfLock(t) /\ Unobserved
    \/ RfStore(t) /\ Unobserved
    \/ RfUnlock(t) /\ Unobserved
    \/ RfMatch(t) /\ Unobserved
    \/ CallClearRegexpCache(t) /\ Unobserved
    \/ ClLock(t) /\ Unobserved
    \/ ClReplace(t) /\ Unobserved
    \/ ClUnlock(t) /\ Unobserved
    \/ CallGetCacheSize(t) /\ Unobserved
    \/ SzRLock(t) /\ Unobserved
    \/ SzLen(t) /\ Unobserved
    \/ SzRUnlock(t) /\ Unobserved

Spec == Init /\ [][Next]_vars

\* The goroutines call regexpFunction and GetCacheSize only.
NextNoClear ==
  \E t \in Threads :
    \/ CallRegexpFunction(t) /\ Unobserved
    \/ RfRLock(t) /\ Unobserved
    \/ RfLookup(t) /\ Unobserved
    \/ RfRUnlock(t) /\ Unobserved
    \/ RfCompile(t) /\ Unobserved
    \/ RfLock(t) /\ Unobserved
    \/ RfStore(t) /\ Unobserved
    \/ RfUnlock(t) /\ Unobserved
    \/ RfMatch(t) /\ Unobserved
    \/ CallGetCacheSize(t) /\ Unobserved
    \/ SzRLock(t) /\ Unobserved
    \/ SzLen(t) /\ Unobserved
    \/ SzRUnlock(t) /\ Unobserved

SpecNoClear == Init /\ [][NextNoClear]_vars

\* ------------------------------------------------- sequential runs, observed

T1 == 1

OpOf(label) ==
  CASE label \in {"rf_rlock", "rf_done"} -> "regexp"
    [] label \in {"cl_lock", "cl_done"} -> "clear"
    [] label \in {"sz_rlock", "sz_done"} -> "size"

Push(h, r) == IF Len(h) < HistLen THEN Append(h, r) ELSE Append(Tail(h), r)

\* What the observer notes of the step: a record when T1 enters a call (for a
\* clear, with the patterns cached before it), filled in when the call returns
\* (the result is noted of GetCacheSize only).
Observe ==
  /\ UNCHANGED <<warm, overtaken, db, reg, qry, supplied, wwait>>
  /\ IF pc[T1] \in AtRest /\ pc'[T1] \notin AtRest
         THEN /\ hist' = Push(hist, [op |-> OpOf(pc'[T1]), pattern |-> pattern'[T1],
                                     before |-> IF pc'[T1] = "cl_lock" THEN Keys(cache)
                                                                          ELSE {},
                                     done |-> FALSE,
                                     miss |-> FALSE, failed |-> FALSE, re |-> NoRe,
                                     result |-> NoValue, after |-> NoValue])
              /\ seen' = seen
       ELSE IF pc[T1] \notin AtRest /\ pc'[T1] \in AtRest
         THEN /\ hist' = [hist EXCEPT ![Len(hist)] =
                            [@ EXCEPT !.done = TRUE, !.miss = ~exists'[T1],
                                      !.failed = (err'[T1] # Nil), !.re = re'[T1],
                                      !.result = IF pc'[T1] = "sz_done" THEN result'[T1]
                                                                       ELSE NoValue,
                                      !.after = MapLen(cache')]]
              /\ seen' = CASE pc'[T1] = "cl_done" -> {}
                           [] pc'[T1] = "rf_done" /\ ValidPattern(pattern[T1]) ->
                                seen \cup {pattern[T1]}
                           [] OTHER -> seen
       ELSE UNCHANGED <<hist, seen>>

\* One goroutine makes one call after the other.
SeqNext ==
  \/ CallRegexpFunction(T1) /\ Observe
  \/ RfRLock(T1) /\ Observe
  \/ RfLookup(T1) /\ Observe
  \/ RfRUnlock(T1) /\ Observe
  \/ RfCompile(T1) /\ Observe
  \/ RfLock(T1) /\ Observe
  \/ RfStore(T1) /\ Observe
  \/ RfUnlock(T1) /\ Observe
  \/ RfMatch(T1) /\ Observe
  \/ CallClearRegexpCache(T1) /\ Observe
  \/ ClLock(T1) /\ Observe
  \/ ClReplace(T1) /\ Observe
  \/ ClUnlock(T1) /\ Observe
  \/ CallGetCacheSize(T1) /\ Observe
  \/ SzRLock(T1) /\ Observe
  \/ SzLen(T1) /\ Observe
  \/ SzRUnlock(T1) /\ Observe

SeqSpec == Init /\ [][SeqNext]_vars

\* ------------------------------ OpenWithRegexp, RegisterRegexpFunction

\* What the SQL-level actions leave alone: the goroutines' calls into the
\* package and the observers.
callVars == <<readers, writer, pc, pattern, text, re, exists, result, err, size>>
obsVars == <<hist, seen, warm, overtaken, supplied, wwait>>

\* OpenWithRegexp(dataSourceName) is called.
CallOpenWithRegexp ==
  /\ reg.pc = "start"
  /\ reg' = [reg EXCEPT !.pc = "owr_open", !.via = "OpenWithRegexp"]
  /\ UNCHANGED <<cache, db, qry, callVars, obsVars>>

\* db, err := sql.Open("sqlite3", dataSourceName).  The driver is registered
\* by the import of go-sqlite3 and sql.Open opens no connection, so the call
\* returns a handle; then RegisterRegexpFunction(db) is called.
OwrOpen ==
  /\ reg.pc = "owr_open"
  /\ db' = [db EXCEPT !.state = "open", !.driver = "sqlite3"]
  /\ reg' = [reg EXCEPT !.pc = "rr_conn", !.attempts = @ + 1]
  /\ UNCHANGED <<cache, qry, callVars, obsVars>>

\* The caller opened a handle with sql.Open itself, for the SQLite driver or
\* for another one, and calls RegisterRegexpFunction(db).
CallRegisterRegexpFunction ==
  /\ reg.pc = "start"
  /\ \E d \in {"sqlite3", "other"} :
       db' = [db EXCEPT !.state = "open", !.driver = d]
  /\ reg' = [reg EXCEPT !.pc = "rr_conn", !.via = "RegisterRegexpFunction",
                         !.attempts = @ + 1]
  /\ UNCHANGED <<cache, qry, callVars, obsVars>>

\* RegisterRegexpFunction returns e to its caller.
RrReturn(r, e) ==
  IF r.via = "OpenWithRegexp"
    THEN [r EXCEPT !.pc = "owr_check", !.conn = NoConn, !.err = e]
    ELSE [r EXCEPT !.pc = IF e = Nil THEN "ready" ELSE "failed", !.conn = NoConn,
                   !.err = e, !.ret = [db |-> "handle", err |-> e]]

\* A goroutine may take connection c from the pool: a free one, or, when none
\* is free, a new one, which fills the first empty slot.
CanTake(c) ==
  \/ db.conns[c].st = "idle"
  \/ /\ db.conns[c].st = "closed"
     /\ \A d \in Conns : db.conns[d].st # "idle"
     /\ \A d \in 1 .. c - 1 : db.conns[d].st # "closed"

\* The pool after connection c was taken; a new connection has no function
\* registered.
Take(c) ==
  [db EXCEPT !.conns[c] = [st |-> "busy", regexp |-> db.conns[c].st = "idle" /\ @.regexp]]

\* The pool after connection c was given back.
Release(d, c) == [d EXCEPT !.conns[c].st = "idle"]

\* conn, err := db.Conn(ctx); if err != nil { return err }; defer conn.Close()
RrConn ==
  /\ reg.pc = "rr_conn"
  /\ \/ \E c \in Conns :
          /\ CanTake(c)
          /\ db' = Take(c)
          /\ reg' = [reg EXCEPT !.pc = "rr_raw", !.conn = c]
     \/ /\ \A c \in Conns : db.conns[c].st = "closed"
        /\ reg' = RrReturn([reg EXCEPT !.raised = ErrCantOpen], ErrCantOpen)
        /\ UNCHANGED db
  /\ UNCHANGED <<cache, qry, callVars, obsVars>>

\* conn.Raw: sqliteConn, ok := driverConn.(*sqlite3.SQLiteConn);
\* if !ok { return driver.ErrBadConn }
RrRaw ==
  /\ reg.pc = "rr_raw"
  /\ reg' = IF db.driver = "sqlite3"
              THEN [reg EXCEPT !.pc = "rr_register"]
              ELSE [reg EXCEPT !.pc = "rr_close", !.err = ErrBadConn,
                               !.raised = ErrBadConn]
  /\ UNCHANGED <<cache, db, qry, callVars, obsVars>>

\* return sqliteConn.RegisterFunc("regexp", regexpFunction, true): the function
\* is created on this SQLite connection, or SQLite reports an error.
RrRegisterFunc ==
  /\ reg.pc = "rr_register"
  /\ \/ /\ db' = [db EXCEPT !.conns[reg.conn].regexp = TRUE]
        /\ reg' = [reg EXCEPT !.pc = "rr_close", !.err = Nil]
     \/ /\ reg' = [reg EXCEPT !.pc = "rr_close", !.err = ErrCreateFunction,
                               !.raised = ErrCreateFunction]
        /\ UNCHANGED db
  /\ UNCHANGED <<cache, qry, callVars, obsVars>>

\* Mutant: the connection is given back only when the registration succeeded.
RrClose_LeaksOnError ==
  /\ reg.pc = "rr_close"
  /\ db' = IF reg.err = Nil THEN Release(db, reg.conn) ELSE db
  /\ reg' = RrReturn(reg, reg.err)
  /\ UNCHANGED <<cache, qry, callVars, obsVars>>

\* The deferred conn.Close(): the connection goes back to the pool, which
\* drops it when the callback returned driver.ErrBadConn; then the return.
RrClose ==
  /\ reg.pc = "rr_close"
  /\ db' = IF reg.err = ErrBadConn
             THEN [db EXCEPT !.conns[reg.conn] = ClosedConn]
             ELSE Release(db, reg.conn)
  /\ reg' = RrReturn(reg, reg.err)
  /\ UNCHANGED <<cache, qry, callVars, obsVars>>

\* Mutant: on a failed registration the handle is returned open, with the
\* error.
OwrCheck_LeavesOpen ==
  /\ reg.pc = "owr_check"
  /\ reg' = IF reg.err # Nil
              THEN [reg EXCEPT !.pc = "failed", !.ret = [db |-> "handle", err |-> reg.err]]
              ELSE [reg EXCEPT !.pc = "ready", !.ret = [db |-> "handle", err |-> Nil]]
  /\ UNCHANGED <<cache, db, qry, callVars, obsVars>>

\* if err := RegisterRegexpFunction(db); err != nil { db.Close(); return nil, err }
\* return db, nil
OwrCheck ==
  /\ reg.pc = "owr_check"
  /\ IF reg.err # Nil
       THEN /\ db' = [db EXCEPT !.state = "closed",
                                !.conns = [c \in Conns |-> ClosedConn]]
            /\ reg' = [reg EXCEPT !.pc = "failed",
                                  !.ret = [db |-> "nil", err |-> reg.err]]
       ELSE /\ reg' = [reg EXCEPT !.pc = "ready",
                                  !.ret = [db |-> "handle", err |-> Nil]]
            /\ UNCHANGED db
  /\ UNCHANGED <<cache, qry, callVars, obsVars>>

\* ----------------------------------------------- queries through the handle

\* Goroutine t may start a query: the handle was returned without error and
\* t runs no query.
MayQuery(t) ==
  /\ reg.pc = "ready"
  /\ db.state = "open"
  /\ qry[t].pc \in {"idle", "done"}

\* db.QueryRow("SELECT x REGEXP p"): the query gets a connection of the pool.
QueryRowInfix(t) ==
  /\ MayQuery(t)
  /\ \E c \in Conns, x \in Items, p \in SqlPatterns :
       /\ CanTake(c)
       /\ db' = Take(c)
       /\ qry' = [qry EXCEPT ![t] =
                    [NoQuery EXCEPT !.pc = "prepare", !.kind = "infix", !.conn = c,
                                    !.lhs = x, !.rhs = p]]
  /\ UNCHANGED <<cache, reg, callVars, obsVars>>

\* db.Query("SELECT p.category, i.item FROM patterns p JOIN items i
\*           ON i.item REGEXP p.pattern"): the query gets a connection.
QueryJoin(t) ==
  /\ MayQuery(t)
  /\ \E c \in Conns, P \in PatternTables, I \in ItemTables :
       /\ CanTake(c)
       /\ db' = Take(c)
       /\ qry' = [qry EXCEPT ![t] =
                    [NoQuery EXCEPT !.pc = "prepare", !.kind = "join", !.conn = c,
                                    !.pats = P, !.items = I]]
  /\ UNCHANGED <<cache, reg, callVars, obsVars>>

\* SQLite prepares the statement on the query's connection: a function that
\* is not registered on that connection is an error of the query.
QueryPrepare(t) ==
  /\ qry[t].pc = "prepare"
  /\ IF db.conns[qry[t].conn].regexp
       THEN /\ qry' = [qry EXCEPT ![t].pc = "step", ![t].k = 1]
            /\ UNCHANGED db
       ELSE /\ qry' = [qry EXCEPT ![t].pc = "done", ![t].err = NoSuchFunction,
                                  ![t].conn = NoConn]
            /\ db' = Release(db, qry[t].conn)
  /\ UNCHANGED <<cache, reg, callVars, obsVars>>

\* The operands of the k-th evaluation of REGEXP in t's query, left and right
\* as written, and the row that is output when the result is 1.
Operands(q) ==
  IF q.kind = "infix"
    THEN [left |-> q.lhs, right |-> q.rhs, row |-> << >>]
    ELSE LET pr == Pairs(q.pats, q.items)[q.k] IN
         [left |-> pr.item, right |-> pr.p.pattern,
          row |-> <<pr.p.category, pr.item>>]

\* The number of evaluations t's query makes.
Evaluations(q) == IF q.kind = "infix" THEN 1 ELSE Len(q.pats) * Len(q.items)

\* SQLite evaluates REGEXP for the next row: it calls the registered function,
\* fails the query when the function returns an error, and otherwise outputs
\* the result (SELECT) or the joined row when the result is 1 (JOIN ... ON).
QueryStep(t) ==
  /\ qry[t].pc = "step"
  /\ qry[t].k <= Evaluations(qry[t])
  /\ LET o == Operands(qry[t])
         a == InfixArgs(o.left, o.right)
         r == RegexpFunction(cache, a[1], a[2], t)
     IN /\ cache' = r.cache
        /\ IF r.err # Nil
             THEN /\ qry' = [qry EXCEPT ![t].pc = "done", ![t].err = r.err,
                                        ![t].args = a, ![t].conn = NoConn,
                                        ![t].rows = << >>]
                  /\ db' = Release(db, qry[t].conn)
             ELSE /\ qry' = [qry EXCEPT
                               ![t].k = @ + 1,
                               ![t].args = a,
                               ![t].value = IF qry[t].kind = "infix" THEN r.result
                                                                     ELSE NoValue,
                               ![t].rows = IF qry[t].kind = "join" /\ r.result = 1
                                             THEN Append(@, o.row) ELSE @]
                  /\ UNCHANGED db
  /\ UNCHANGED <<reg, callVars, obsVars>>

\* The rows are read to the end and closed: the connection goes back to the
\* pool.
QueryFinish(t) ==
  /\ qry[t].pc = "step"
  /\ qry[t].k > Evaluations(qry[t])
  /\ qry' = [qry EXCEPT ![t].pc = "done", ![t].conn = NoConn]
  /\ db' = Release(db, qry[t].conn)
  /\ UNCHANGED <<cache, reg, callVars, obsVars>>

\* A handle is opened, the function is registered, and the goroutines query
\* through the handle.
SqlNext ==
  \/ CallOpenWithRegexp
  \/ OwrOpen
  \/ CallRegisterRegexpFunction
  \/ RrConn
  \/ RrRaw
  \/ RrRegisterFunc
  \/ RrClose
  \/ OwrCheck
  \/ \E t \in Threads :
       \/ QueryRowInfix(t)
       \/ QueryJoin(t)
       \/ QueryPrepare(t)
       \/ QueryStep(t)
       \/ QueryFinish(t)

SqlSpec == Init /\ [][SqlNext]_vars

\* ------------------------------------------------------------------ claims

RfLabels == {"rf_rlock", "rf_lookup", "rf_runlock", "rf_compile", "rf_lock",
             "rf_store", "rf_unlock", "rf_match", "rf_done"}

\* The value regexpFunction(p, x) is to return for a valid p.
Expected(p, x) == IF Matches(p, x) THEN 1 ELSE 0

\* The entries the map holds under key k.
EntriesOf(m, k) == { e \in m : e.key = k }

\* C1: for a valid pattern regexpFunction(pattern, text) returns (1, nil) when
\* the text matches the pattern by the reference semantics and (0, nil) when it
\* does not, whatever the cache held when the call looked the pattern up.
C1_EvaluateMatchesReference ==
  \A t \in Threads :
    pc[t] = "rf_done" /\ ValidPattern(pattern[t]) =>
      /\ err[t] = Nil
      /\ result[t] = Expected(pattern[t], text[t])

\* A call answered from the cache returned 1 while another call, which compiled
\* its pattern, returned 0 on a text that only an unanchored search rules out.
C1_Witness ==
  \E t, u \in Threads :
    /\ pc[t] = "rf_done" /\ exists[t] /\ result[t] = 1 /\ Len(text[t]) = 2
    /\ pc[u] = "rf_done" /\ ~exists[u] /\ result[u] = 0 /\ Len(text[u]) = 2
    /\ ValidPattern(pattern[t]) /\ ValidPattern(pattern[u])

\* C2: a regexpFunction call with an invalid pattern returns 0 and a non-nil
\* error, and no step of the call changes the cache: no entry is added and the
\* entry count stays what it was.
C2_InvalidPatternLeavesCache ==
  /\ [](\A t \in Threads :
          pc[t] = "rf_done" /\ ~ValidPattern(pattern[t]) =>
            result[t] = 0 /\ err[t] # Nil)
  /\ [][\A t \in Threads :
          pc'[t] \in RfLabels /\ pc'[t] # pc[t] /\ ~ValidPattern(pattern'[t]) =>
            cache' = cache /\ pattern'[t] \notin Keys(cache')]_vars

\* A call with the malformed pattern has returned while the cache held entries.
C2_Witness ==
  \E t \in Threads :
    /\ pc[t] = "rf_done" /\ ~ValidPattern(pattern[t])
    /\ err[t] # Nil
    /\ MapLen(cache) >= 1

\* C3: without a clear, every regexpFunction call that has returned for a valid
\* pattern returned the correct result for its text, and the cache then holds
\* exactly one entry for that pattern, also when several goroutines compiled
\* the same pattern at the same time.
C3_SamePatternOneEntry ==
  \A t \in Threads :
    pc[t] = "rf_done" /\ ValidPattern(pattern[t]) =>
      /\ err[t] = Nil
      /\ result[t] = Expected(pattern[t], text[t])
      /\ Cardinality(EntriesOf(cache, pattern[t])) = 1

\* Every goroutine has returned from a call with the same valid pattern, and
\* each of them missed the cache and compiled the pattern itself.
C3_Witness ==
  \E p \in Patterns :
    /\ ValidPattern(p)
    /\ \A t \in Threads :
         pc[t] = "rf_done" /\ pattern[t] = p /\ ~exists[t] /\ re[t].by = t

\* The store of goroutine t: the step from line 42 to line 43.
StoreStep(t) == pc[t] = "rf_store" /\ pc'[t] = "rf_unlock"

InWrite(t) == pc[t] \in {"rf_store", "rf_unlock", "cl_replace", "cl_unlock"}

\* Goroutine t holds the shared lock (lines 30-31, 103-104).
InRead(t) == pc[t] \in {"rf_lookup", "rf_runlock", "sz_len", "sz_runlock"}

\* C5: while a goroutine is inside a write section (the insertion of
\* regexpFunction, the replacement of ClearRegexpCache) no other goroutine is
\* inside a read section (the lookup, GetCacheSize) or a write section.
C5_WritersExclude ==
  \A t, u \in Threads :
    t # u /\ InWrite(t) => ~InWrite(u) /\ ~InRead(u)

\* A goroutine is inside a write section while another one waits for the lock.
C5_Witness ==
  \E t, u \in Threads :
    /\ t # u
    /\ InWrite(t)
    /\ pc[u] \in {"rf_rlock", "rf_lock", "cl_lock", "sz_rlock"}

\* Read sections overlap: two goroutines hold the shared lock at once.
C5_ReadersOverlap ==
  \E t, u \in Threads : t # u /\ InRead(t) /\ InRead(u)

\* C6: two regexpFunction calls in sequence with the same valid pattern use
\* matchers that give the same result on every text, and the cache has as many
\* entries after the second call as after the first; GetCacheSize called after
\* each of them returns the same number.
C6_SecondCallSameMatcher ==
  /\ \A i \in 1 .. Len(hist) - 1 :
       /\ hist[i].op = "regexp" /\ hist[i + 1].op = "regexp"
       /\ hist[i + 1].done
       /\ hist[i].pattern = hist[i + 1].pattern
       /\ ValidPattern(hist[i].pattern)
       => /\ \A x \in Texts :
               MatchString(hist[i].re, x) = MatchString(hist[i + 1].re, x)
          /\ hist[i + 1].after = hist[i].after
          /\ ~hist[i + 1].miss
  /\ \A i \in 1 .. Len(hist) - 3 :
       /\ hist[i].op = "regexp" /\ hist[i + 1].op = "size"
       /\ hist[i + 2].op = "regexp" /\ hist[i + 3].op = "size"
       /\ hist[i + 3].done
       /\ hist[i].pattern = hist[i + 2].pattern
       /\ ValidPattern(hist[i].pattern)
       => /\ \A x \in Texts :
               MatchString(hist[i].re, x) = MatchString(hist[i + 2].re, x)
          /\ hist[i + 3].result = hist[i + 1].result

\* A call that compiled a valid pattern into a cache holding another pattern, a
\* GetCacheSize, a second call with the same pattern and a second GetCacheSize.
C6_Witness ==
  /\ Len(hist) = 4
  /\ hist[1].op = "regexp" /\ hist[2].op = "size"
  /\ hist[3].op = "regexp" /\ hist[4].op = "size"
  /\ hist[4].done
  /\ hist[1].pattern = hist[3].pattern
  /\ ValidPattern(hist[1].pattern)
  /\ hist[1].miss
  /\ hist[2].result = 2

\* C7: GetCacheSize right after ClearRegexpCache returns 0 whatever the cache
\* held; a regexpFunction call that follows the clear with a pattern cached
\* before it misses the cache, compiles the pattern again and leaves one entry,
\* so that GetCacheSize then returns 1.
C7_ClearThenRecompile ==
  /\ \A i \in 1 .. Len(hist) - 1 :
       hist[i].op = "clear" /\ hist[i + 1].op = "size" /\ hist[i + 1].done =>
         hist[i + 1].result = 0
  /\ \A i \in 1 .. Len(hist) - 1 :
       /\ hist[i].op = "clear" /\ hist[i + 1].op = "regexp" /\ hist[i + 1].done
       /\ hist[i + 1].pattern \in hist[i].before
       => /\ hist[i + 1].miss /\ hist[i + 1].re.by = T1
          /\ ~hist[i + 1].failed
          /\ hist[i + 1].after = 1
  /\ \A i \in 1 .. Len(hist) - 2 :
       /\ hist[i].op = "clear" /\ hist[i + 1].op = "regexp"
       /\ hist[i + 2].op = "size" /\ hist[i + 2].done
       /\ hist[i + 1].pattern \in hist[i].before
       => hist[i + 2].result = 1
  /\ \A i \in 1 .. Len(hist) - 3 :
       /\ hist[i].op = "clear" /\ hist[i + 1].op = "size"
       /\ hist[i + 2].op = "regexp"
       /\ hist[i + 3].op = "size" /\ hist[i + 3].done
       /\ hist[i + 2].pattern \in hist[i].before
       => hist[i + 2].miss /\ hist[i + 3].result = 1

\* A clear of a cache holding two patterns, a GetCacheSize, a call with one of
\* those patterns and a GetCacheSize, all returned.
C7_Witness ==
  /\ Len(hist) = 4
  /\ hist[1].op = "clear" /\ Cardinality(hist[1].before) = 2
  /\ hist[2].op = "size"
  /\ hist[3].op = "regexp" /\ hist[3].pattern \in hist[1].before
  /\ hist[4].op = "size" /\ hist[4].done

\* C8: in a sequential run GetCacheSize returns the number of distinct valid
\* patterns passed to regexpFunction since the last ClearRegexpCache (or since
\* the start).
C8_SizeCountsDistinctPatterns ==
  pc[T1] = "sz_done" => result[T1] = Cardinality(seen)

\* GetCacheSize returned 2 after a clear, two different valid patterns, and a
\* call that repeated one of them.
C8_Witness ==
  /\ pc[T1] = "sz_done" /\ result[T1] = 2
  /\ Len(hist) = 4
  /\ hist[1].op = "regexp" /\ hist[2].op = "regexp" /\ hist[3].op = "regexp"
  /\ hist[1].miss /\ hist[2].miss /\ ~hist[3].miss
  /\ hist[4].op = "size"

\* The replacement of ClearRegexpCache by goroutine t: line 96.
ReplaceStep(t) == pc[t] = "cl_replace" /\ pc'[t] = "cl_unlock"

\* C9: between two consecutive states the cache loses no pattern and its entry
\* count does not decrease, unless the step is the replacement performed by
\* ClearRegexpCache.
C9_GrowsUntilCleared ==
  [][\/ Keys(cache) \subseteq Keys(cache') /\ MapLen(cache') >= MapLen(cache)
     \/ \E t \in Threads : ReplaceStep(t)]_vars

\* A goroutine has just stored over the entry of a pattern, in a cache holding
\* other patterns too.
C9_Witness ==
  \E t \in Threads :
    /\ pc[t] = "rf_unlock"
    /\ MapLen(cache) = 3
    /\ \E u \in Threads : u # t /\ pc[u] = "rf_match" /\ ~exists[u]
                          /\ pattern[u] = pattern[t]

\* C10: a failed compilation is never cached: no malformed pattern is a key of
\* the cache, so every call with a malformed pattern misses the cache, compiles
\* again and returns 0 with the compiler's error as the compiler reported it.
C10_FailureNeverCached ==
  /\ \A p \in Patterns : ~ValidPattern(p) => p \notin Keys(cache)
  /\ \A t \in Threads :
       pc[t] = "rf_done" /\ ~ValidPattern(pattern[t]) =>
         /\ ~exists[t]
         /\ result[t] = 0
         /\ err[t] = RefError(pattern[t])

\* Both goroutines have returned the compiler's error for the malformed pattern.
C10_Witness ==
  \A t \in Threads :
    pc[t] = "rf_done" /\ ~ValidPattern(pattern[t]) /\ err[t] = RefError(pattern[t])

\* C11: once OpenWithRegexp or RegisterRegexpFunction has returned without
\* error, no query through the handle fails with "no such function", whichever
\* connection of the pool serves it.
C11_RegexpOnEveryConnection ==
  \A t \in Threads : qry[t].pc = "done" => qry[t].err # NoSuchFunction

\* C12: OpenWithRegexp returns either the handle and no error, the handle open
\* and the function registered on a connection of its pool, or no handle and
\* the error that the failed step raised, unchanged, after one registration
\* attempt and with the opened handle closed.
C12_OpenWithRegexpReturn ==
  /\ reg.via = "OpenWithRegexp" => reg.attempts <= 1
  /\ reg.via = "OpenWithRegexp" /\ reg.pc \in {"ready", "failed"} =>
       \/ /\ reg.ret = [db |-> "handle", err |-> Nil]
          /\ reg.raised = Nil
          /\ db.state = "open"
          /\ \E c \in Conns : db.conns[c].st # "closed" /\ db.conns[c].regexp
       \/ /\ reg.ret.db = "nil"
          /\ reg.ret.err # Nil
          /\ reg.ret.err = reg.raised
          /\ reg.attempts = 1
          /\ db.state = "closed"
          /\ \A c \in Conns : db.conns[c] = ClosedConn

\* OpenWithRegexp has returned the error of RegisterFunc: the handle had been
\* opened and a connection made, and both are closed.
C12_Witness ==
  /\ reg.via = "OpenWithRegexp" /\ reg.pc = "failed"
  /\ reg.ret = [db |-> "nil", err |-> ErrCreateFunction]
  /\ db.state = "closed"

Count(rows, r) == Cardinality({ i \in DOMAIN rows : rows[i] = r })

\* The categories of a patterns table.
Categories(P) == { P[i].category : i \in DOMAIN P }

\* C14: a join of a patterns table and an items table on item REGEXP pattern
\* returns one row (category, item) for every pattern row and item row such
\* that the item matches the pattern, and no other row.
C14_JoinReturnsMatchingPairs ==
  \A t \in Threads :
    qry[t].kind = "join" /\ qry[t].pc = "done" =>
      \A c \in Categories(qry[t].pats), x \in Items :
        Count(qry[t].rows, <<c, x>>) =
          Cardinality({ pr \in (DOMAIN qry[t].pats) \X (DOMAIN qry[t].items) :
                          /\ qry[t].pats[pr[1]].category = c
                          /\ qry[t].items[pr[2]] = x
                          /\ Matches(qry[t].pats[pr[1]].pattern, x) })

\* ------------------------------------------- concurrent calls, observed

\* Follows every goroutine through its call: warm[t] says that the pattern of
\* t's call was a key of the cache when the call began and that no clear has
\* replaced the map since; overtaken[t] says that a clear replaced the map
\* while t's call held a matcher, looked up or compiled.
Track ==
  /\ warm' = [t \in Threads |->
               IF pc[t] \in AtRest /\ pc'[t] \notin AtRest
                 THEN pc'[t] = "rf_rlock" /\ pattern'[t] \in Keys(cache)
               ELSE IF \E u \in Threads : ReplaceStep(u) THEN FALSE
               ELSE warm[t]]
  /\ overtaken' = [t \in Threads |->
                    IF pc[t] \in AtRest /\ pc'[t] \notin AtRest THEN FALSE
                    ELSE IF /\ \E u \in Threads : ReplaceStep(u)
                            /\ pc[t] \in RfLabels \ {"rf_done"}
                            /\ re[t] # NoRe
                      THEN TRUE
                    ELSE overtaken[t]]
  /\ UNCHANGED <<hist, seen, db, reg, qry, supplied, wwait>>

\* The goroutines call the three functions in any interleaving.
ObsNext ==
  \E t \in Threads :
    \/ CallRegexpFunction(t) /\ Track
    \/ RfRLock(t) /\ Track
    \/ RfLookup(t) /\ Track
    \/ RfRUnlock(t) /\ Track
    \/ RfCompile(t) /\ Track
    \/ RfLock(t) /\ Track
    \/ RfStore(t) /\ Track
    \/ RfUnlock(t) /\ Track
    \/ RfMatch(t) /\ Track
    \/ CallClearRegexpCache(t) /\ Track
    \/ ClLock(t) /\ Track
    \/ ClReplace(t) /\ Track
    \/ ClUnlock(t) /\ Track
    \/ CallGetCacheSize(t) /\ Track
    \/ SzRLock(t) /\ Track
    \/ SzLen(t) /\ Track
    \/ SzRUnlock(t) /\ Track

ObsSpec == Init /\ [][ObsNext]_vars

\* C15: regexpFunction returns a non-nil error only when the compilation of
\* its pattern failed; for a valid pattern, whether the call found the matcher
\* in the cache or compiled it, the error is nil and the result is 0 or 1.
C15_OnlyCompilationFails ==
  \A t \in Threads :
    /\ pc[t] = "rf_done" =>
         /\ err[t] # Nil <=> ~ValidPattern(pattern[t])
         /\ err[t] # Nil => ~exists[t] /\ re[t] = NoRe
         /\ ValidPattern(pattern[t]) => err[t] = Nil /\ result[t] \in {0, 1}
    /\ pc[t] \in RfLabels /\ re[t] # NoRe => err[t] = Nil

\* Two calls with valid patterns have returned without error, the one that
\* found its matcher in the cache with 0 and the one that compiled with 1.
C15_Witness ==
  \E t, u \in Threads :
    /\ pc[t] = "rf_done" /\ exists[t] /\ err[t] = Nil /\ result[t] = 0
    /\ pc[u] = "rf_done" /\ ~exists[u] /\ err[u] = Nil /\ result[u] = 1

\* The steps of a regexpFunction call that compile, take the exclusive lock or
\* store.
SlowPath == {"rf_compile", "rf_lock", "rf_store", "rf_unlock"}

\* C16: a regexpFunction call that begins while its pattern is in the cache,
\* and during which no clear replaces the map, reuses the cached matcher: it
\* finds the entry, never reaches the compile, lock or store steps, never holds
\* the exclusive lock, and none of its steps changes the cache.
C16_WarmCallReusesMatcher ==
  /\ [](\A t \in Threads :
          warm[t] /\ pc[t] \in RfLabels =>
            /\ pc[t] \notin SlowPath
            /\ writer # t
            /\ pc[t] = "rf_runlock" =>
                 exists[t] /\ [key |-> pattern[t], val |-> re[t]] \in cache
            /\ pc[t] \in {"rf_match", "rf_done"} => exists[t] /\ re[t] # NoRe)
  /\ [][\A t \in Threads :
          warm[t] /\ pc[t] \in RfLabels /\ pc'[t] \in RfLabels /\ pc'[t] # pc[t] =>
            cache' = cache]_vars

\* A call has returned using a matcher that the other goroutine had compiled
\* and stored before the call began.
C16_Witness ==
  \E t \in Threads :
    /\ warm[t] /\ pc[t] = "rf_done" /\ exists[t]
    /\ re[t].by # t /\ re[t].by # NoThread

\* C17: in every state the cache holds at most one matcher per pattern string,
\* also while and after several goroutines store the same pattern.
C17_OneMatcherPerPattern ==
  \A p \in Patterns : Cardinality(EntriesOf(cache, p)) <= 1

\* Two goroutines that both compiled the same pattern have both stored it: one
\* has just stored, the other stored before and has moved on.
C17_Witness ==
  \E t, u \in Threads :
    /\ t # u /\ pattern[t] = pattern[u]
    /\ pc[t] = "rf_unlock" /\ re[t].by = t
    /\ pc[u] \in {"rf_match", "rf_done"} /\ re[u].by = u
    /\ Cardinality(EntriesOf(cache, pattern[t])) = 1

\* C18: a call that held a matcher when a clear replaced the map still returns
\* the correct result for its pattern and text, and right after the replacement
\* no matcher held by a call is reachable from the cache.
C18_MatcherSurvivesClear ==
  /\ [](\A t \in Threads :
          overtaken[t] /\ pc[t] = "rf_done" =>
            /\ err[t] = Nil
            /\ result[t] = Expected(pattern[t], text[t]))
  /\ [][(\E u \in Threads : ReplaceStep(u)) =>
          \A t \in Threads : \A e \in cache' : e.val # re[t]]_vars

\* A call that had looked its matcher up when the other goroutine's clear
\* replaced the map has returned 1, and the map is still empty.
C18_Witness ==
  \E t, u \in Threads :
    /\ overtaken[t] /\ pc[t] = "rf_done" /\ exists[t] /\ result[t] = 1
    /\ pc[u] = "cl_done" /\ cache = MakeMap

\* C19: the clear empties the map in one step taken under the exclusive lock:
\* a step that removes a pattern leaves the empty map, no step changes the map
\* while a goroutine holds the shared lock, and a lookup or a size read returns
\* what the map holds at that moment.
C19_ClearIsAtomic ==
  [][/\ Keys(cache) \ Keys(cache') # {} =>
          cache' = MakeMap /\ \E u \in Threads : ReplaceStep(u) /\ writer = u
     /\ readers # {} => cache' = cache
     /\ \A t \in Threads :
          /\ pc[t] = "rf_lookup" /\ pc'[t] = "rf_runlock" =>
               /\ t \in readers
               /\ exists'[t] = (pattern[t] \in Keys(cache))
               /\ exists'[t] => [key |-> pattern[t], val |-> re'[t]] \in cache
          /\ pc[t] = "sz_len" /\ pc'[t] = "sz_runlock" =>
               t \in readers /\ size'[t] = Cardinality(Keys(cache))]_vars

\* A clear waits for the lock while a GetCacheSize that counted two entries
\* still holds the shared lock.
C19_Witness ==
  \E t, u \in Threads :
    /\ pc[t] = "cl_lock"
    /\ pc[u] = "sz_runlock" /\ size[u] = 2 /\ u \in readers

\* C20: a goroutine at the compile step of regexpFunction holds neither the
\* shared nor the exclusive lock, so when every other goroutine is compiling or
\* outside the locked sections the lock is free.
C20_CompileHoldsNoLock ==
  /\ \A t \in Threads : pc[t] = "rf_compile" => t \notin readers /\ writer # t
  /\ \A t \in Threads :
       (\A u \in Threads \ {t} : pc[u] \in AtRest \cup {"rf_compile"}) =>
         readers \subseteq {t} /\ writer \in {NoThread, t}

\* A clear holds the exclusive lock and is about to replace the map while
\* another goroutine compiles.
C20_Witness ==
  \E t, u \in Threads :
    pc[t] = "rf_compile" /\ pc[u] = "cl_replace" /\ writer = u

\* ------------------------------------ concurrent calls, patterns recorded

\* Records the pattern of every regexpFunction call when the call is made.
Supply ==
  /\ supplied' = supplied \cup { pattern'[t] : t \in { u \in Threads :
                                     pc[u] \in AtRest /\ pc'[u] = "rf_rlock" } }
  /\ UNCHANGED <<hist, seen, warm, overtaken, db, reg, qry, wwait>>

\* The goroutines call the three functions in any interleaving.
SupNext ==
  \E t \in Threads :
    \/ CallRegexpFunction(t) /\ Supply
    \/ RfRLock(t) /\ Supply
    \/ RfLookup(t) /\ Supply
    \/ RfRUnlock(t) /\ Supply
    \/ RfCompile(t) /\ Supply
    \/ RfLock(t) /\ Supply
    \/ RfStore(t) /\ Supply
    \/ RfUnlock(t) /\ Supply
    \/ RfMatch(t) /\ Supply
    \/ CallClearRegexpCache(t) /\ Supply
    \/ ClLock(t) /\ Supply
    \/ ClReplace(t) /\ Supply
    \/ ClUnlock(t) /\ Supply
    \/ CallGetCacheSize(t) /\ Supply
    \/ SzRLock(t) /\ Supply
    \/ SzLen(t) /\ Supply
    \/ SzRUnlock(t) /\ Supply

SupSpec == Init /\ [][SupNext]_vars

\* The goroutines call regexpFunction and GetCacheSize; nobody clears.
SupNextNoClear ==
  \E t \in Threads :
    \/ CallRegexpFunction(t) /\ Supply
    \/ RfRLock(t) /\ Supply
    \/ RfLookup(t) /\ Supply
    \/ RfRUnlock(t) /\ Supply
    \/ RfCompile(t) /\ Supply
    \/ RfLock(t) /\ Supply
    \/ RfStore(t) /\ Supply
    \/ RfUnlock(t) /\ Supply
    \/ RfMatch(t) /\ Supply
    \/ CallGetCacheSize(t) /\ Supply
    \/ SzRLock(t) /\ Supply
    \/ SzLen(t) /\ Supply
    \/ SzRUnlock(t) /\ Supply

SupSpecNoClear == Init /\ [][SupNextNoClear]_vars

\* The valid patterns that regexpFunction has been called with.
ValidSupplied == { p \in supplied : ValidPattern(p) }

\* The size read of GetCacheSize by goroutine t: line 103.
LenStep(t) == pc[t] = "sz_len" /\ pc'[t] = "sz_runlock"

\* C21: without a clear no store is lost: a call that returned for a valid
\* pattern left its pattern in the cache, and when no call is running the keys
\* of the cache are the valid patterns supplied so far, one entry each, which
\* is the number GetCacheSize then reads.
C21_NoLostUpdate ==
  /\ [](\A t \in Threads :
          pc[t] = "rf_done" /\ ValidPattern(pattern[t]) => pattern[t] \in Keys(cache))
  /\ []((\A t \in Threads : pc[t] \in AtRest) =>
          /\ Keys(cache) = ValidSupplied
          /\ MapLen(cache) = Cardinality(ValidSupplied))
  /\ [][\A t \in Threads :
          LenStep(t) /\ (\A u \in Threads \ {t} : pc[u] \in AtRest) =>
            size'[t] = Cardinality(ValidSupplied)]_vars

\* Every goroutine has returned from a call with a valid pattern of its own
\* that it compiled and stored itself, and the cache holds them all.
C21_Witness ==
  /\ \A t \in Threads :
       /\ pc[t] = "rf_done" /\ ValidPattern(pattern[t])
       /\ ~exists[t] /\ re[t].by = t
       /\ [key |-> pattern[t], val |-> re[t]] \in cache
  /\ \A t, u \in Threads : t # u => pattern[t] # pattern[u]
  /\ MapLen(cache) = NumThreads

\* The labels of a GetCacheSize call.
SzLabels == {"sz_rlock", "sz_len", "sz_runlock", "sz_done"}

\* C22: no step of a GetCacheSize call changes the map; the call reads the
\* entry count in one step, while it holds the shared lock and no goroutine
\* holds the exclusive lock, and returns the count it read.
C22_SizeIsPureObservation ==
  [][\A t \in Threads :
       /\ pc[t] \in SzLabels /\ pc'[t] \in SzLabels /\ pc'[t] # pc[t] =>
            cache' = cache
       /\ pc[t] \in AtRest /\ pc'[t] = "sz_rlock" => cache' = cache
       /\ LenStep(t) =>
            /\ t \in readers /\ writer = NoThread
            /\ size'[t] = MapLen(cache)
       /\ pc[t] = "sz_runlock" /\ pc'[t] = "sz_done" => result'[t] = size[t]]_vars

\* A GetCacheSize call has returned 1, the count at the instant it read, and
\* the cache has grown to three entries since.
C22_Witness ==
  \E t \in Threads :
    pc[t] = "sz_done" /\ result[t] = 1 /\ MapLen(cache) = 3

\* The lookup of regexpFunction by goroutine t: line 30.
LookupStep(t) == pc[t] = "rf_lookup" /\ pc'[t] = "rf_runlock"

\* C23: the key of an entry is the pattern text as it was passed: a lookup
\* finds an entry exactly when the cache has the very pattern as a key and
\* then returns the matcher stored under that key, and a store adds or replaces
\* the entry of its own pattern and leaves every other entry alone, also the
\* entries of patterns that match the same texts.
C23_KeysAreExactText ==
  [][\A t \in Threads :
       /\ LookupStep(t) =>
            /\ exists'[t] = (pattern[t] \in Keys(cache))
            /\ exists'[t] =>
                 /\ [key |-> pattern[t], val |-> re'[t]] \in cache
                 /\ re'[t].prog = Compile(pattern[t]).prog
       /\ StoreStep(t) =>
            /\ { e \in cache' : e.key # pattern[t] } = { e \in cache : e.key # pattern[t] }
            /\ EntriesOf(cache', pattern[t]) = { [key |-> pattern[t], val |-> re[t]] }]_vars

\* The cache holds separate entries for "^b" and "^^b", which match the same
\* texts; one goroutine has just missed on "^^b" although "^b" was cached,
\* and has stored its own matcher next to it.
C23_Witness ==
  \E t \in Threads :
    /\ pattern[t] = <<"^", "^", "b">> /\ pc[t] = "rf_unlock" /\ ~exists[t]
    /\ \E e \in cache : e.key = <<"^", "b">> /\ e.val.by # t
    /\ Cardinality(EntriesOf(cache, <<"^", "^", "b">>)) = 1

\* RegisterRegexpFunction has returned to its caller.
Returned(r) == r.pc \in {"owr_check", "ready", "failed"}

\* C24: when RegisterRegexpFunction returns, the connection it took from the
\* pool is no longer in its hands, whether the registration succeeded, failed
\* or met another driver's connection; for another driver's connection it
\* returns driver.ErrBadConn and no connection has the function; when db.Conn
\* failed it returns that error and the pool is as it was; the error returned
\* is the one the failed step raised, and nil means the function is on a
\* connection of the pool.
C24_RegisterReleasesConnection ==
  [][~Returned(reg) /\ Returned(reg') =>
       /\ reg'.conn = NoConn
       /\ reg.conn # NoConn => db'.conns[reg.conn].st # "busy"
       /\ reg'.err = reg'.raised
       /\ reg.pc = "rr_close" /\ db.driver # "sqlite3" =>
            /\ reg'.err = ErrBadConn
            /\ \A c \in Conns : ~db'.conns[c].regexp
       /\ reg.pc = "rr_conn" =>
            /\ reg'.err = ErrCantOpen
            /\ db' = db
            /\ \A c \in Conns : db.conns[c] = ClosedConn
       /\ reg'.err = Nil =>
            \E c \in Conns : db'.conns[c] = [st |-> "idle", regexp |-> TRUE]]_vars

\* RegisterRegexpFunction has returned driver.ErrBadConn for a handle of
\* another driver; the connection it had taken is gone from the pool and no
\* connection has the function.
C24_Witness ==
  /\ reg.via = "RegisterRegexpFunction" /\ reg.pc = "failed"
  /\ db.driver = "other" /\ reg.err = ErrBadConn /\ reg.conn = NoConn
  /\ \A c \in Conns : db.conns[c] = ClosedConn

\* ------------------------------------------------------- fair scheduling

\* The specifications above let a goroutine take the shared lock whenever no
\* goroutine holds the exclusive lock.  sync.RWMutex is stricter: Lock() first
\* announces the writer, which keeps new readers out, and returns when the
\* readers that hold the lock have left; one writer at a time is announced or
\* holds the lock.  Every run with this lock is a run of the specifications
\* above, with wwait left out.
Quiet == UNCHANGED <<hist, seen, warm, overtaken, db, reg, qry, supplied>>

\* Goroutine t, inside Lock(), announces itself to the readers.
LockAnnounce(t) ==
  /\ pc[t] \in {"rf_lock", "cl_lock"}
  /\ writer = NoThread
  /\ wwait = NoThread
  /\ wwait' = t
  /\ UNCHANGED <<cache, readers, writer, pc, pattern, text, re, exists, result, err,
                 size>>
  /\ Quiet

\* The calls of the goroutines on sync.RWMutex as it hands out the lock.
LiveNext ==
  \E t \in Threads :
    \/ CallRegexpFunction(t) /\ Unobserved
    \/ RfRLock(t) /\ wwait = NoThread /\ Unobserved
    \/ RfLookup(t) /\ Unobserved
    \/ RfRUnlock(t) /\ Unobserved
    \/ RfCompile(t) /\ Unobserved
    \/ LockAnnounce(t)
    \/ RfLock(t) /\ wwait = t /\ wwait' = NoThread /\ Quiet
    \/ RfStore(t) /\ Unobserved
    \/ RfUnlock(t) /\ Unobserved
    \/ RfMatch(t) /\ Unobserved
    \/ CallClearRegexpCache(t) /\ Unobserved
    \/ ClLock(t) /\ wwait = t /\ wwait' = NoThread /\ Quiet
    \/ ClReplace(t) /\ Unobserved
    \/ ClUnlock(t) /\ Unobserved
    \/ CallGetCacheSize(t) /\ Unobserved
    \/ SzRLock(t) /\ wwait = NoThread /\ Unobserved
    \/ SzLen(t) /\ Unobserved
    \/ SzRUnlock(t) /\ Unobserved

\* A step of goroutine t inside RLock() or Lock().
Acquire(t) ==
  \/ (RfRLock(t) \/ SzRLock(t)) /\ wwait = NoThread /\ Unobserved
  \/ LockAnnounce(t)
  \/ (RfLock(t) \/ ClLock(t)) /\ wwait = t /\ wwait' = NoThread /\ Quiet

\* Any other step of a call of goroutine t that is under way.
Proceed(t) ==
  /\ \/ RfLookup(t) \/ RfRUnlock(t) \/ RfCompile(t) \/ RfStore(t) \/ RfUnlock(t)
     \/ RfMatch(t)
     \/ ClReplace(t) \/ ClUnlock(t)
     \/ SzLen(t) \/ SzRUnlock(t)
  /\ Unobserved

\* The scheduler runs every goroutine that can take a step, and sync.RWMutex
\* does not pass over a goroutine that waits in RLock() or Lock(): Unlock()
\* wakes the readers that wait, and the writers queue on a fair mutex.  Making
\* a new call is left to the caller.
Fairness ==
  \A t \in Threads : WF_vars(Proceed(t)) /\ SF_vars(Acquire(t))

LiveSpec == Init /\ [][LiveNext]_vars /\ Fairness

\* Goroutine t is inside RLock() or Lock() and cannot take a step there.
Blocked(t) ==
  \/ pc[t] \in {"rf_rlock", "sz_rlock"} /\ (writer # NoThread \/ wwait # NoThread)
  \/ pc[t] \in {"rf_lock", "cl_lock"} /\ wwait = t /\ readers # {}
  \/ pc[t] \in {"rf_lock", "cl_lock"} /\ wwait # t
       /\ (writer # NoThread \/ wwait # NoThread)

\* C25: every call that is under way returns; a goroutine that asks for the
\* exclusive lock does not hold the shared lock, a goroutine that is not in a
\* call holds no lock, also after a compilation error, and whenever calls are
\* under way one of them can take a step.
C25_CallsTerminate ==
  /\ [](\A t \in Threads :
          /\ pc[t] \in {"rf_lock", "cl_lock"} => t \notin readers /\ writer # t
          /\ pc[t] \in AtRest => t \notin readers /\ writer # t)
  /\ []((\E t \in Threads : pc[t] \notin AtRest) =>
          \E t \in Threads : pc[t] \notin AtRest /\ ~Blocked(t))
  /\ \A t \in Threads : (pc[t] \notin AtRest) ~> (pc[t] \in AtRest)

\* A goroutine that has announced itself in Lock() waits for a reader to
\* leave, and keeps out every other goroutine, which waits in RLock().
C25_Witness ==
  \E t, u \in Threads :
    /\ pc[t] = "rf_lock" /\ wwait = t
    /\ pc[u] = "rf_lookup" /\ u \in readers
    /\ \A v \in Threads \ {t, u} : pc[v] \in {"rf_rlock", "sz_rlock"}

\* C26: in every state every entry of the cache holds, under its key, a
\* matcher that a goroutine compiled from that key: its program is the one the
\* key compiles to, and it matches the texts the key matches.
C26_EntryCompiledFromItsKey ==
  \A e \in cache :
    /\ e.key \in Patterns /\ ValidPattern(e.key)
    /\ e.val.by \in Threads
    /\ e.val.prog = Compile(e.key).prog
    /\ \A x \in Texts : MatchString(e.val, x) = Matches(e.key, x)

\* The cache holds entries of all three valid patterns, stored by different
\* goroutines, while one goroutine is about to store a fresh matcher over an
\* entry and the other has called ClearRegexpCache.
C26_Witness ==
  \E t, u \in Threads :
    /\ MapLen(cache) = 3
    /\ \E e, f \in cache : e.val.by = t /\ f.val.by = u /\ t # u
    /\ pc[t] = "rf_store" /\ pattern[t] \in Keys(cache)
    /\ pc[u] = "cl_lock"

\* What a call regexpFunction(p, x) returns when it runs alone on an empty
\* cache: the result and whether there is an error.
Alone(p, x) ==
  LET r == RegexpFunction(MakeMap, p, x, T1) IN
  [result |-> r.result, failed |-> r.err # Nil]

\* C27: what regexpFunction returns depends on its pattern and text only: two
\* calls with the same pattern and text return the same result and both or
\* neither an error, and every call returns what the call returns that runs
\* alone on an empty cache, whatever the cache held and whatever calls and
\* clears ran beside it.
C27_Deterministic ==
  /\ \A t, u \in Threads :
       /\ pc[t] = "rf_done" /\ pc[u] = "rf_done"
       /\ pattern[t] = pattern[u] /\ text[t] = text[u]
       => /\ result[t] = result[u]
          /\ (err[t] = Nil) = (err[u] = Nil)
  /\ \A t \in Threads :
       pc[t] = "rf_done" =>
         [result |-> result[t], failed |-> err[t] # Nil] = Alone(pattern[t], text[t])

\* Two calls with the same pattern and text have returned 1: one began with
\* the pattern cached and used the cached matcher, the other compiled the
\* pattern and was overtaken by a clear before it stored.
C27_Witness ==
  \E t, u \in Threads :
    /\ pc[t] = "rf_done" /\ pc[u] = "rf_done"
    /\ pattern[t] = pattern[u] /\ text[t] = text[u]
    /\ warm[t] /\ exists[t]
    /\ overtaken[u] /\ ~exists[u]
    /\ result[t] = 1 /\ result[u] = 1

\* C28: the map is empty from the replacement of a clear until the clear has
\* released the exclusive lock, and an entry enters the map only by the store
\* of a regexpFunction call that holds the exclusive lock, so every entry
\* found after a clear was stored after it.
C28_EmptyAtRelease ==
  /\ [](\A t \in Threads : pc[t] = "cl_unlock" => cache = MakeMap /\ writer = t)
  /\ [][/\ \A t \in Threads :
            pc[t] = "cl_unlock" /\ pc'[t] = "cl_done" => cache' = MakeMap
        /\ cache' \ cache # {} =>
             \E t \in Threads :
               /\ StoreStep(t) /\ writer = t
               /\ cache' \ cache = { [key |-> pattern[t], val |-> re[t]] }]_vars

\* After a clear has returned, the only entry of the cache is the one stored
\* by a call that had missed and compiled before the clear replaced the map;
\* the goroutine that cleared has made no call since.
C28_Witness ==
  \E t, u \in Threads :
    /\ t # u
    /\ pc[u] = "cl_done"
    /\ overtaken[t] /\ ~exists[t] /\ pc[t] = "rf_unlock"
    /\ cache = { [key |-> pattern[t], val |-> re[t]] }

\* C29: in every state every key of the cache is a valid pattern that some
\* regexpFunction call was made with, so the entry count, and every count that
\* GetCacheSize has read or returned, is at most the number of distinct valid
\* patterns supplied so far.
C29_OnlySuppliedValidKeys ==
  /\ \A k \in Keys(cache) : ValidPattern(k) /\ k \in supplied
  /\ MapLen(cache) <= Cardinality(ValidSupplied)
  /\ \A t \in Threads :
       /\ pc[t] = "sz_runlock" => size[t] <= Cardinality(ValidSupplied)
       /\ pc[t] = "sz_done" => result[t] <= Cardinality(ValidSupplied)

\* All patterns, the malformed one too, have been supplied; GetCacheSize has
\* returned 3, the number of valid ones, and the cache has been cleared since.
C29_Witness ==
  \E t \in Threads :
    /\ supplied = Patterns
    /\ pc[t] = "sz_done" /\ result[t] = 3
    /\ cache = MakeMap

====
